---- MODULE Spec2Model ----
\* Model of the interactive document pipeline of src/chroma_db/main.py:
\* extract -> segment -> store in the ChromaDB collection -> query.
\* Text is modelled as a sequence of one-character strings.
EXTENDS Integers, Sequences, FiniteSets, TLC

\* ---------------------------------------------------------------- bounds
MaxRuns == 2
MaxPages == 2
MaxChunks == 2
MaxDist == 1

\* ------------------------------------------------------ program constants
MinLength == 10
MaxResults == 5

\* ------------------------------------------------------- python values
None == [tag |-> "None"]

Str(s) == [tag |-> "str", s |-> s]

\* Python truthiness of a value that is None or a str ("not content").
Truthy(v) == v.tag = "str" /\ v.s # <<>>

\* ------------------------------------------------------- text helpers
Whitespace == {" ", "\n"}

RECURSIVE LStrip(_)
LStrip(s) ==
    IF s # <<>> /\ Head(s) \in Whitespace THEN LStrip(Tail(s)) ELSE s

RECURSIVE RStrip(_)
RStrip(s) ==
    IF s # <<>> /\ s[Len(s)] \in Whitespace
    THEN RStrip(SubSeq(s, 1, Len(s) - 1))
    ELSE s

\* str.strip()
Strip(s) == RStrip(LStrip(s))

StartsWith(s, sep) ==
    Len(s) >= Len(sep) /\ SubSeq(s, 1, Len(sep)) = sep

\* str.split(sep) for a non-empty separator: non-overlapping matches, left to
\* right; the result always has at least one piece.
RECURSIVE SplitFrom(_, _, _)
SplitFrom(s, sep, cur) ==
    IF s = <<>> THEN <<cur>>
    ELSE IF StartsWith(s, sep)
         THEN <<cur>> \o SplitFrom(SubSeq(s, Len(sep) + 1, Len(s)), sep, <<>>)
         ELSE SplitFrom(Tail(s), sep, Append(cur, Head(s)))

Split(s, sep) == SplitFrom(s, sep, <<>>)

\* [f(x) for x in xs if x.strip()]  with f = strip
RECURSIVE StripNonEmpty(_)
StripNonEmpty(xs) ==
    IF xs = <<>> THEN <<>>
    ELSE IF Strip(Head(xs)) # <<>>
         THEN <<Strip(Head(xs))>> \o StripNonEmpty(Tail(xs))
         ELSE StripNonEmpty(Tail(xs))

Digit == <<"0", "1", "2", "3", "4", "5", "6", "7", "8", "9">>

\* str(n) for a natural number
RECURSIVE IntToStr(_)
IntToStr(n) ==
    IF n < 10 THEN <<Digit[n + 1]>>
    ELSE IntToStr(n \div 10) \o <<Digit[(n % 10) + 1]>>

PageToken == <<"P", "a", "g", "e", " ">>

ParagraphBreak == <<"\n", "\n">>

\* ------------------------------------------------------------ extractors
\* f"Page {page_num + 1}:\n{page_text}\n\n" appended for every page with text;
\* page_num is the 0-based position among ALL pages.
RECURSIVE PdfConcat(_, _)
PdfConcat(pages, page_num) ==
    IF page_num >= Len(pages) THEN <<>>
    ELSE (IF Strip(pages[page_num + 1]) # <<>>
          THEN PageToken \o IntToStr(page_num + 1) \o <<":", "\n">>
               \o pages[page_num + 1] \o <<"\n", "\n">>
          ELSE <<>>)
         \o PdfConcat(pages, page_num + 1)

\* extract_text_from_pdf: None when reading raises or no text was accumulated.
extract_text_from_pdf(file) ==
    IF ~file.readable THEN None
    ELSE IF PdfConcat(file.pages, 0) = <<>> THEN None
    ELSE Str(PdfConcat(file.pages, 0))

HighBytes == {"0xE9", "0x80", "0x81"}

\* bytes.decode('utf-8'): a lone high byte never forms a valid sequence here.
Utf8Decodes(bytes) == \A i \in 1..Len(bytes) : bytes[i] \notin HighBytes

\* bytes.decode('latin-1'): every byte maps to the code point of its value.
Latin1Decode(bytes) ==
    [i \in 1..Len(bytes) |->
        IF bytes[i] = "0xE9" THEN "e'"
        ELSE IF bytes[i] = "0x80" THEN "U+0080"
        ELSE IF bytes[i] = "0x81" THEN "U+0081"
        ELSE bytes[i]]

\* bytes.decode('cp1252'): 0x81 is undefined, 0x80 is the euro sign.
Cp1252Decodes(bytes) == \A i \in 1..Len(bytes) : bytes[i] # "0x81"

Cp1252Decode(bytes) ==
    [i \in 1..Len(bytes) |->
        IF bytes[i] = "0xE9" THEN "e'"
        ELSE IF bytes[i] = "0x80" THEN "U+20AC"
        ELSE bytes[i]]

\* mutant: cp1252 is tried before latin-1
encodings_to_try_Cp1252First == <<"utf-8", "cp1252", "latin-1", "iso-8859-1">>

encodings_to_try == <<"utf-8", "latin-1", "cp1252", "iso-8859-1">>

Decodes(bytes, encoding) ==
    IF encoding = "utf-8" THEN Utf8Decodes(bytes)
    ELSE IF encoding = "cp1252" THEN Cp1252Decodes(bytes)
    ELSE TRUE

Decode(bytes, encoding) ==
    IF encoding = "utf-8" THEN bytes
    ELSE IF encoding = "cp1252" THEN Cp1252Decode(bytes)
    ELSE Latin1Decode(bytes)

\* mutant: the first UnicodeDecodeError ends the loop
TryEncodings_NoFallback(bytes, k) ==
    IF Decodes(bytes, encodings_to_try[k])
    THEN Str(Decode(bytes, encodings_to_try[k]))
    ELSE None

\* the loop over encodings_to_try, from position k
RECURSIVE TryEncodings(_, _)
TryEncodings(bytes, k) ==
    IF k > Len(encodings_to_try) THEN None
    ELSE IF Decodes(bytes, encodings_to_try[k])
         THEN Str(Decode(bytes, encodings_to_try[k]))
         ELSE TryEncodings(bytes, k + 1)

\* extract_text_from_txt on a file that can be opened (an OSError from open()
\* is not caught there and is modelled in the Extract action).
extract_text_from_txt(file) == TryEncodings(file.bytes, 1)

\* ------------------------------------------------------------ segmentation
\* lines 244-251 of process_and_store_content
Segment(content, file_type) ==
    IF file_type = "PDF"
    THEN StripNonEmpty(Split(content, PageToken))
    ELSE StripNonEmpty(Split(content, ParagraphBreak))

Lower(file_type) == IF file_type = "PDF" THEN "pdf" ELSE "txt"

\* mutant: the id is numbered from the 0-based index itself
DocId_ZeroBased(file_type, idx) == <<Lower(file_type), "_doc_">> \o IntToStr(idx)

\* f"{file_type.lower()}_doc_{idx + 1}"
DocId(file_type, idx) == <<Lower(file_type), "_doc_">> \o IntToStr(idx + 1)

\* mutant: the id is numbered by the count of sections stored so far
SectionId_ByCount(ft, i, added) == DocId(ft, added)

\* the doc_id of the loop body, where idx and documents_added are in scope
SectionId(ft, i, added) == DocId(ft, i)

\* mutant: a section of exactly 10 characters passes the filter
Substantial_AtLeast(section) == section # <<>> /\ Len(section) >= MinLength

\* "if section and len(section) > 10"
Substantial(section) == section # <<>> /\ Len(section) > MinLength

\* ------------------------------------------------------------------ inputs
Blank == <<" ">>

\* with its marker line "1:\n" a section of 10 characters once trimmed
Short7 == <<"s", "e", "v", "e", "n", "c", "h", " ">>

\* with its marker line a section of 11 characters
Long8 == <<"l", "o", "n", "g", "p", "a", "g", "e">>

PagePalette == {Blank, Short7, Long8}

\* 10 characters once trimmed, one of them the byte 0xE9 (not valid UTF-8)
Ten == <<"t", "e", "n", " ", "l", "e", "t", "t", "0xE9", "r", " ">>

\* 11 characters once trimmed
Eleven == <<" ", "e", "l", "e", "v", "e", "n", " ", "c", "h", "a", "r", "\n">>

ChunkPalette == {Ten, Eleven}

SeqsUpTo(S, n) == UNION {[1..k -> S] : k \in 0..n}

PdfFiles ==
    {[readable |-> TRUE, pages |-> p, bytes |-> <<>>] : p \in SeqsUpTo(PagePalette, MaxPages)}
    \cup {[readable |-> FALSE, pages |-> <<>>, bytes |-> <<>>]}

\* the chunks of a text file, a blank line between two of them
RECURSIVE Join(_)
Join(xs) ==
    IF xs = <<>> THEN <<>>
    ELSE IF Len(xs) = 1 THEN Head(xs)
    ELSE Head(xs) \o ParagraphBreak \o Join(Tail(xs))

TxtFiles ==
    {[readable |-> TRUE, pages |-> <<>>, bytes |-> Join(c)] : c \in SeqsUpTo(ChunkPalette, MaxChunks)}
    \cup {[readable |-> FALSE, pages |-> <<>>, bytes |-> <<>>]}

NoFile == [readable |-> FALSE, pages |-> <<>>, bytes |-> <<>>]

\* a page whose own text contains "Page " (as a footer "Page 2 of 5" does)
WithToken ==
    <<"i", "n", "t", "r", "o", " ", "w", "o", "r", "d", "s", " ",
      "P", "a", "g", "e", " ",
      "t", "w", "o", " ", "f", "o", "l", "l", "o", "w", "s">>

RichPagePalette == PagePalette \cup {WithToken}

RichPdfFiles ==
    {[readable |-> TRUE, pages |-> p, bytes |-> <<>>] :
        p \in SeqsUpTo(RichPagePalette, MaxPages)}
    \cup {[readable |-> FALSE, pages |-> <<>>, bytes |-> <<>>]}

\* 11 bytes, one of them 0x80: no UTF-8; latin-1 and cp1252 decode it
\* differently
EuroChunk == <<"c", "o", "s", "t", " ", "0x80", " ", "f", "i", "v", "e">>

\* 11 bytes, one of them 0x81: no UTF-8 and no cp1252
UndefChunk == <<"b", "y", "t", "e", " ", "0x81", " ", "h", "e", "r", "e">>

RichChunkPalette == ChunkPalette \cup {EuroChunk, UndefChunk}

RichTxtFiles ==
    {[readable |-> TRUE, pages |-> <<>>, bytes |-> Join(c)] :
        c \in SeqsUpTo(RichChunkPalette, MaxChunks)}
    \cup {[readable |-> FALSE, pages |-> <<>>, bytes |-> <<>>]}

\* ------------------------------------------------------------------- state
VARIABLES
    pc,              \* position of main()
    runs,            \* executions of the program started so far
    collection,      \* 'interactive_collection': id -> document text
    file_type,       \* "PDF" / "TXT" / "" before the choice
    file,            \* the file behind file_path
    content,         \* extractor result (None / str)
    segmented,       \* process_and_store_content has computed `sections`
    sections,        \* the list `sections`
    idx,             \* loop position in `sections`
    documents_added, \* the counter of the loop
    docs_count,      \* return value of process_and_store_content, -1 before
    n_results,       \* n_results passed to collection.query, -1 before
    queryStatus,     \* "none" / "raised" / "returned": what collection.query did
    results,         \* results of the query: <<[id, document, distance]>>
    shown,           \* relevance scores printed, in order
    messages,        \* outcome messages printed by main()
    addLog,          \* collection.add calls of this run: [id, document, ok, existed]
    startCollection, \* the collection when this run started
    prev,            \* the latest completed process_and_store_content call
    repeated         \* the call before it, when this run's call repeated it

vars == <<pc, runs, collection, file_type, file, content, segmented, sections,
          idx, documents_added, docs_count, n_results, queryStatus, results,
          shown, messages, addLog, startCollection, prev, repeated>>

NoPrev ==
    [valid |-> FALSE, content |-> <<>>, file_type |-> "", ids |-> <<>>,
     count |-> 0, allOk |-> FALSE]

EmptyCollection == [i \in {} |-> <<>>]

Init ==
    /\ pc = "idle"
    /\ runs = 1
    /\ collection = EmptyCollection
    /\ file_type = ""
    /\ file = NoFile
    /\ content = None
    /\ segmented = FALSE
    /\ sections = <<>>
    /\ idx = 0
    /\ documents_added = 0
    /\ docs_count = -1
    /\ n_results = -1
    /\ queryStatus = "none"
    /\ results = <<>>
    /\ shown = <<>>
    /\ messages = <<>>
    /\ addLog = <<>>
    /\ startCollection = EmptyCollection
    /\ prev = NoPrev
    /\ repeated = NoPrev

\* ------------------------------------------------------------ operations
Min(a, b) == IF a < b THEN a ELSE b

\* What the two extractors hand back to main(): a value, or an exception that
\* leaves the extractor (open() of the text file raising anything but
\* UnicodeDecodeError; extract_text_from_pdf catches every Exception).
Extractor(ft, f) ==
    IF ft = "PDF" THEN [raised |-> FALSE, value |-> extract_text_from_pdf(f)]
    ELSE IF ~f.readable THEN [raised |-> TRUE, value |-> None]
    ELSE [raised |-> FALSE, value |-> extract_text_from_txt(f)]

\* "if not content" of main()
ExtractionFailed(c) == ~Truthy(c)

\* mutant: an id the collection already holds is stored a second time
CollectionAdd_Duplicates(coll, id, doc) ==
    LET key == IF id \in DOMAIN coll THEN Append(id, "'") ELSE id
    IN [i \in DOMAIN coll \cup {key} |-> IF i = key THEN doc ELSE coll[i]]

\* collection.add(ids=[id], documents=[doc]) returning normally: a new id is
\* stored, an id the collection already holds is left as it is.
CollectionAdd(coll, id, doc) ==
    IF id \in DOMAIN coll THEN coll
    ELSE [i \in DOMAIN coll \cup {id} |-> IF i = id THEN doc ELSE coll[i]]

\* mutant: the counter also counts an add call that raised
CountAfter_CountsFailures(added, ok) == added + 1

\* "documents_added += 1" sits after the add call inside the try block
CountAfter(added, ok) == IF ok THEN added + 1 ELSE added

\* mutant: a failed add call ends the loop
NextIdx_AbortOnFailure(i, ok, n) == IF ok THEN i + 1 ELSE n

\* the loop goes on to the next section whatever the add call did
NextIdx(i, ok, n) == i + 1

\* mutant: the check of main() never fires
NothingStored_Never(count) == count < 0

\* "if docs_count == 0" of main()
NothingStored(count) == count = 0

\* n_results=min(5, docs_count)
ResultLimit(count) == Min(MaxResults, count)

\* relevance_score = 1 - distance
Relevance(distance) == 1 - distance

\* mutant: the display loop is entered whatever the query returned
HasResults_Always(res) == TRUE

\* "if results['documents'] and results['documents'][0]"
HasResults(res) == res # <<>>

\* mutant: a query that raised is issued again
AfterQuery_RetryOnError(status) == IF status = "raised" THEN "query" ELSE "done"

\* after the inner try/except main() prints the session footer and returns,
\* whether the query returned or raised (lines 382-388)
AfterQuery(status) == "done"

\* The external search hands back its hits by ascending distance.
RECURSIVE SortByDistance(_, _, _)
SortByDistance(S, dist, coll) ==
    IF S = {} THEN <<>>
    ELSE LET m == CHOOSE x \in S : \A y \in S : dist[x] <= dist[y]
         IN <<[id |-> m, document |-> coll[m], distance |-> dist[m]]>>
            \o SortByDistance(S \ {m}, dist, coll)

\* main() lines 293-307: CloudClient / get_or_create_collection
Connect ==
    /\ pc = "idle"
    /\ \E ok \in BOOLEAN :
        IF ok THEN pc' = "input" /\ messages' = messages
        ELSE pc' = "done" /\ messages' = <<"error_occurred">>
    /\ UNCHANGED <<runs, collection, file_type, file, content, segmented,
                   sections, idx, documents_added, docs_count, n_results, queryStatus,
                   results, shown, addLog, startCollection, prev, repeated>>

\* main() lines 309-322: get_user_choice / get_file_path
ChooseDocument ==
    /\ pc = "input"
    /\ \E ft \in {"PDF", "TXT"} :
        /\ file_type' = ft
        /\ file' \in (IF ft = "PDF" THEN PdfFiles ELSE TxtFiles)
    /\ pc' = "extract"
    /\ UNCHANGED <<runs, collection, content, segmented, sections, idx,
                   documents_added, docs_count, n_results, queryStatus, results, shown,
                   messages, addLog, startCollection, prev, repeated>>

\* main() lines 324-333
Extract ==
    /\ pc = "extract"
    /\ LET r == Extractor(file_type, file) IN
        IF r.raised
        THEN /\ content' = content
             /\ messages' = <<"error_occurred">>
             /\ pc' = "done"
        ELSE /\ content' = r.value
             /\ IF ExtractionFailed(r.value)
                THEN messages' = <<"extraction_failed">> /\ pc' = "done"
                ELSE messages' = messages /\ pc' = "store_begin"
    /\ UNCHANGED <<runs, collection, file_type, file, segmented, sections, idx,
                   documents_added, docs_count, n_results, queryStatus, results, shown,
                   addLog, startCollection, prev, repeated>>

\* process_and_store_content lines 242-253
BeginStore ==
    /\ pc = "store_begin"
    /\ sections' = Segment(content.s, file_type)
    /\ segmented' = TRUE
    /\ documents_added' = 0
    /\ idx' = 0
    /\ pc' = "store"
    /\ UNCHANGED <<runs, collection, file_type, file, content, docs_count,
                   n_results, queryStatus, results, shown, messages, addLog,
                   startCollection, prev, repeated>>

\* process_and_store_content lines 256-272: one iteration of the loop
StoreSection ==
    /\ pc = "store"
    /\ idx < Len(sections)
    /\ LET section == sections[idx + 1]
           doc_id == SectionId(file_type, idx, documents_added)
       IN IF Substantial(section)
          THEN \E ok \in BOOLEAN :
                /\ collection' = IF ok THEN CollectionAdd(collection, doc_id, section)
                                  ELSE collection
                /\ documents_added' = CountAfter(documents_added, ok)
                /\ addLog' = Append(addLog,
                                [id |-> doc_id, document |-> section, ok |-> ok,
                                 existed |-> doc_id \in DOMAIN collection])
                /\ idx' = NextIdx(idx, ok, Len(sections))
          ELSE /\ UNCHANGED <<collection, documents_added, addLog>>
               /\ idx' = idx + 1
    /\ UNCHANGED <<pc, runs, file_type, file, content, segmented, sections,
                   docs_count, n_results, queryStatus, results, shown, messages,
                   startCollection, prev, repeated>>

\* process_and_store_content has returned in this run
StoreReturned == docs_count # -1

\* the ids handed to collection.add in this run, in call order
AttemptedIds == [i \in 1..Len(addLog) |-> addLog[i].id]

\* what the finished process_and_store_content call of this run did
ThisCall ==
    [valid |-> TRUE, content |-> content.s, file_type |-> file_type,
     ids |-> AttemptedIds, count |-> Cardinality(DOMAIN collection),
     allOk |-> \A i \in 1..Len(addLog) : addLog[i].ok]

\* process_and_store_content lines 274-275 and main() lines 336-341
EndStore ==
    /\ pc = "store"
    /\ idx >= Len(sections)
    /\ docs_count' = documents_added
    /\ prev' = ThisCall
    /\ repeated' = IF prev.valid /\ prev.content = content.s
                       /\ prev.file_type = file_type
                   THEN prev ELSE NoPrev
    /\ IF NothingStored(documents_added)
       THEN messages' = <<"no_documents">> /\ pc' = "done"
       ELSE messages' = messages /\ pc' = "query"
    /\ UNCHANGED <<runs, collection, file_type, file, content, segmented,
                   sections, idx, documents_added, n_results, queryStatus,
                   results, shown, addLog, startCollection>>

\* main() lines 343-388: the query and the display of its results
Query ==
    /\ pc = "query"
    /\ n_results' = ResultLimit(docs_count)
    /\ \/ \* collection.query raises: "Error during query"
          /\ queryStatus' = "raised"
          /\ results' = <<>>
          /\ shown' = <<>>
          /\ messages' = <<"query_error", "session_completed">>
       \/ \E S \in SUBSET DOMAIN collection :
          /\ Cardinality(S) <= ResultLimit(docs_count)
          /\ \E dist \in [S -> 0..MaxDist] :
             LET res == SortByDistance(S, dist, collection) IN
             /\ queryStatus' = "returned"
             /\ results' = res
             /\ IF HasResults(res)
                THEN /\ shown' = [i \in 1..Len(res) |-> Relevance(res[i].distance)]
                     /\ messages' = <<"search_results", "session_completed">>
                ELSE /\ shown' = <<>>
                     /\ messages' = <<"no_results", "session_completed">>
    /\ pc' = AfterQuery(queryStatus')
    /\ UNCHANGED <<runs, collection, file_type, file, content, segmented,
                   sections, idx, documents_added, docs_count, addLog,
                   startCollection, prev, repeated>>

\* The script is started again; the named cloud collection outlives the
\* process (get_or_create_collection fetches it).
NewRun ==
    /\ pc = "done"
    /\ runs < MaxRuns
    /\ runs' = runs + 1
    /\ pc' = "idle"
    /\ file_type' = ""
    /\ file' = NoFile
    /\ content' = None
    /\ segmented' = FALSE
    /\ sections' = <<>>
    /\ idx' = 0
    /\ documents_added' = 0
    /\ docs_count' = -1
    /\ n_results' = -1
    /\ queryStatus' = "none"
    /\ results' = <<>>
    /\ shown' = <<>>
    /\ messages' = <<>>
    /\ addLog' = <<>>
    /\ startCollection' = collection
    /\ repeated' = NoPrev
    /\ UNCHANGED <<collection, prev>>

\* main() lines 309-322 with the wider set of documents
ChooseRichDocument ==
    /\ pc = "input"
    /\ \E ft \in {"PDF", "TXT"} :
        /\ file_type' = ft
        /\ file' \in (IF ft = "PDF" THEN RichPdfFiles ELSE RichTxtFiles)
    /\ pc' = "extract"
    /\ UNCHANGED <<runs, collection, content, segmented, sections, idx,
                   documents_added, docs_count, n_results, queryStatus,
                   results, shown, messages, addLog, startCollection, prev,
                   repeated>>

Next ==
    \/ Connect
    \/ ChooseDocument
    \/ Extract
    \/ BeginStore
    \/ StoreSection
    \/ EndStore
    \/ Query
    \/ NewRun

Spec == Init /\ [][Next]_vars

\* one run of main() on a new collection, over the wider set of documents
InputNext ==
    \/ Connect
    \/ ChooseRichDocument
    \/ Extract
    \/ BeginStore
    \/ StoreSection
    \/ EndStore
    \/ Query

InputSpec == Init /\ [][InputNext]_vars

\* ------------------------------------------------------------------ claims
\* collection.query was called in this run
QueryIssued == queryStatus # "none"

\* C1: a similarity query is issued only if process_and_store_content
\* returned a count > 0; with a count of 0 the run is over with the
\* "no documents stored" outcome and the query step is never reached.
C1_QueryOnlyAfterInsert ==
    /\ (pc = "query" \/ QueryIssued) => docs_count > 0
    /\ docs_count = 0 =>
         /\ pc = "done"
         /\ messages = <<"no_documents">>
         /\ ~QueryIssued
         /\ n_results = -1
         /\ results = <<>>

\* every add call of the run failed and the run halted without a query
C1_Witness ==
    /\ docs_count = 0
    /\ Len(addLog) > 0
    /\ pc = "done"
    /\ messages = <<"no_documents">>

\* the extractor of this run has been called and failed or gave no content
ExtractorCalled == pc \notin {"idle", "input", "extract"} /\ file_type # ""

ExtractorFailedOrEmpty ==
    /\ ExtractorCalled
    /\ \/ Extractor(file_type, file).raised
       \/ ExtractionFailed(Extractor(file_type, file).value)

\* C2: whenever the Extractor fails or reports empty content (PDF or text
\* variant) the run is over in the "extraction failed" outcome, with no
\* segmentation, no insertion, no query and the collection unchanged.
C2_ExtractionFailureHalts ==
    ExtractorFailedOrEmpty =>
        /\ pc = "done"
        /\ messages = <<"extraction_failed">>
        /\ ~segmented
        /\ addLog = <<>>
        /\ ~QueryIssued
        /\ collection = startCollection

\* the ids of the substantial ones among the first n sections, in order
RECURSIVE ExpectedIds(_, _, _)
ExpectedIds(secs, ft, n) ==
    IF n = 0 THEN <<>>
    ELSE ExpectedIds(secs, ft, n - 1)
         \o (IF Len(secs[n]) > MinLength THEN <<DocId(ft, n - 1)>> ELSE <<>>)

SuccessCount == Cardinality({i \in 1..Len(addLog) : addLog[i].ok})

\* C3: process_and_store_content attempts every section that passes the
\* length filter, also after an add call that failed, and returns exactly the
\* number of add calls that succeeded.
C3_AllAttemptedCountExact ==
    /\ segmented => /\ AttemptedIds = ExpectedIds(sections, file_type, idx)
                    /\ documents_added = SuccessCount
    /\ StoreReturned => /\ idx = Len(sections)
                        /\ AttemptedIds = ExpectedIds(sections, file_type, Len(sections))
                        /\ docs_count = SuccessCount

\* a failed add call was followed by a successful one and the call returned 1
C3_Witness ==
    /\ StoreReturned
    /\ Len(addLog) = 2
    /\ ~addLog[1].ok
    /\ addLog[2].ok
    /\ docs_count = 1

\* C4: an add call on an id the collection already holds that returns
\* normally has replaced the record's text by the section's text (upsert).
C4_UpsertReplaces ==
    \A i \in 1..Len(addLog) :
        (addLog[i].existed /\ addLog[i].ok) =>
            /\ addLog[i].id \in DOMAIN collection
            /\ collection[addLog[i].id] = addLog[i].document

\* this run's call repeats the previous call: same content, same file type
RepeatsPreviousCall ==
    /\ StoreReturned
    /\ repeated.valid
    /\ repeated.content = content.s
    /\ repeated.file_type = file_type

StoredCount == Cardinality(DOMAIN collection)

C6_IdsConsecutive ==
    \A i \in 1..Len(addLog) :
        addLog[i].id = <<Lower(file_type), "_doc_">> \o IntToStr(i)

\* the position in secs of the k-th section longer than MinLength, 0 if none
RECURSIVE KeptPosition(_, _, _)
KeptPosition(secs, k, from) ==
    IF from > Len(secs) THEN 0
    ELSE IF Len(secs[from]) > MinLength
         THEN (IF k = 1 THEN from ELSE KeptPosition(secs, k - 1, from + 1))
         ELSE KeptPosition(secs, k, from + 1)

\* C6 amended: the id of a stored section is {type}_doc_{p} with p the 1-based
\* position of the section among the trimmed non-empty pieces BEFORE the
\* length filter; ids increase in source order, a filtered piece leaves a gap.
C6_IdsNumberedBeforeFilter ==
    \A i \in 1..Len(addLog) :
        LET p == KeptPosition(sections, i, 1) IN
        /\ p >= i
        /\ addLog[i].document = sections[p]
        /\ addLog[i].id = <<Lower(file_type), "_doc_">> \o IntToStr(p)

\* the first piece was filtered, so the only stored section got number 2
C6_Witness ==
    /\ StoreReturned
    /\ Len(sections) = 2
    /\ Len(addLog) = 1
    /\ addLog[1].id = <<Lower(file_type), "_doc_", "2">>

\* C7: within one call no two sections get the same id, and a call that
\* repeats the previous call's content and type hands the identical sequence
\* of ids to storage, whatever the add calls did.
C7_IdsUniqueDeterministic ==
    /\ \A i, j \in 1..Len(addLog) : i # j => addLog[i].id # addLog[j].id
    /\ RepeatsPreviousCall => AttemptedIds = repeated.ids

\* a repeated call with two sections whose first add call failed this time
C7_Witness ==
    /\ RepeatsPreviousCall
    /\ repeated.allOk
    /\ Len(addLog) = 2
    /\ ~addLog[1].ok
    /\ AttemptedIds = repeated.ids

\* C8: for every query the requested limit is min(5, total stored records),
\* the results returned are at most that many, and the relevance scores shown
\* are non-increasing in result order.
C8_LimitIsMinOfStored ==
    QueryIssued =>
        /\ n_results = Min(MaxResults, StoredCount)
        /\ Len(results) <= Min(MaxResults, StoredCount)
        /\ \A i, j \in 1..Len(shown) : i < j => shown[i] >= shown[j]

\* C9: a query that returns an empty result set ends in the "no results"
\* outcome of a completed session, never in an error report; a collection
\* holding zero records is never queried at all.
C9_EmptyResultIsNoResults ==
    /\ (queryStatus = "returned" /\ results = <<>>) =>
          /\ pc = "done"
          /\ messages = <<"no_results", "session_completed">>
          /\ shown = <<>>
    /\ QueryIssued => StoredCount > 0

\* the search returned nothing although records are stored
C9_Witness ==
    /\ queryStatus = "returned"
    /\ results = <<>>
    /\ n_results >= 1
    /\ messages = <<"no_results", "session_completed">>

\* the first position >= start at which piece occurs in text, 0 if none
RECURSIVE FindFrom(_, _, _)
FindFrom(text, piece, start) ==
    IF start + Len(piece) - 1 > Len(text) THEN 0
    ELSE IF SubSeq(text, start, start + Len(piece) - 1) = piece THEN start
    ELSE FindFrom(text, piece, start + 1)

\* the documents from the k-th on occur in text one after the other
RECURSIVE InSourceOrder(_, _, _, _)
InSourceOrder(text, docs, k, start) ==
    IF k > Len(docs) THEN TRUE
    ELSE LET p == FindFrom(text, docs[k], start)
         IN p # 0 /\ InSourceOrder(text, docs, k + 1, p + Len(docs[k]))

StoredDocuments == [i \in 1..Len(addLog) |-> addLog[i].document]

\* C10: the sections handed to storage occur in the source text in the order
\* they are handed over, and each is trimmed text of more than 10 characters.
C10_OrderedAndLongEnough ==
    /\ \A i \in 1..Len(addLog) :
          /\ Len(addLog[i].document) > MinLength
          /\ Strip(addLog[i].document) = addLog[i].document
    /\ segmented => InSourceOrder(content.s, StoredDocuments, 1, 1)

\* two different sections of one document were handed to storage
C10_Witness ==
    /\ StoreReturned
    /\ Len(addLog) = 2
    /\ addLog[1].document # addLog[2].document

\* what the extractor appended for the pages from number n on, piece by
\* piece: the rest of the marker and the page text, trimmed
RECURSIVE PageSections(_, _)
PageSections(pages, n) ==
    IF n > Len(pages) THEN <<>>
    ELSE (IF Strip(pages[n]) # <<>>
          THEN <<Strip(IntToStr(n) \o <<":", "\n">> \o pages[n])>>
          ELSE <<>>)
         \o PageSections(pages, n + 1)

\* C11: for a PDF the segmentation gives exactly one piece per page with
\* text, the i-th piece holding the text of the i-th such page, whatever the
\* page texts contain.
C11_PagesRederived ==
    (segmented /\ file_type = "PDF") =>
        sections = PageSections(file.pages, 1)

\* the order of encodings the claim names
ClaimedOrder == <<"utf-8", "latin-1", "cp1252", "iso-8859-1">>

DecodingEncodings(bytes) ==
    {k \in 1..Len(ClaimedOrder) : Decodes(bytes, ClaimedOrder[k])}

\* the decode under the first encoding of the claimed order that decodes
FirstDecoding(bytes) ==
    IF DecodingEncodings(bytes) = {} THEN None
    ELSE LET k == CHOOSE x \in DecodingEncodings(bytes) :
                      \A y \in DecodingEncodings(bytes) : x <= y
         IN Str(Decode(bytes, ClaimedOrder[k]))

TextExtractorReturned ==
    ExtractorCalled /\ file_type = "TXT" /\ file.readable

\* C12: the text extractor returns the decode under the first of utf-8,
\* latin-1, cp1252, iso-8859-1 that decodes the file; it returns its failure
\* value exactly when none of them decodes, and the run then ends as an
\* extraction failure.
C12_FirstEncodingWins ==
    TextExtractorReturned =>
        /\ content = FirstDecoding(file.bytes)
        /\ (content.tag = "None") <=> (DecodingEncodings(file.bytes) = {})
        /\ content.tag = "None" =>
              pc = "done" /\ messages = <<"extraction_failed">>

\* utf-8 failed on the byte 0x80 and the latin-1 decode was stored
C12_Witness ==
    /\ TextExtractorReturned
    /\ ~Utf8Decodes(file.bytes)
    /\ content = Str(Latin1Decode(file.bytes))
    /\ \E i \in 1..Len(content.s) : content.s[i] = "U+0080"
    /\ Len(addLog) > 0

\* the stages of main() in program order
Rank(p) ==
    CASE p = "idle" -> 0
      [] p = "input" -> 1
      [] p = "extract" -> 2
      [] p = "store_begin" -> 3
      [] p = "store" -> 4
      [] p = "query" -> 5
      [] p = "done" -> 6

FailureOutcomes ==
    {<<"error_occurred">>, <<"extraction_failed">>, <<"no_documents">>}

QueriedOutcomes ==
    {<<"search_results", "session_completed">>,
     <<"no_results", "session_completed">>,
     <<"query_error", "session_completed">>}

\* a stage is entered only when the stage before it has completed, and a run
\* that is over is in Queried or in a failure outcome
C13_StageOrder ==
    /\ pc \in {"idle", "input", "extract", "store_begin", "store", "query",
               "done"}
    /\ pc \in {"store_begin", "store", "query"} => Truthy(content)
    /\ segmented <=> (Rank(pc) >= 4 /\ Truthy(content))
    /\ addLog # <<>> => segmented
    /\ pc = "store_begin" => ~segmented /\ ~StoreReturned
    /\ pc = "store" => ~StoreReturned /\ ~QueryIssued
    /\ pc = "query" => /\ StoreReturned
                       /\ idx = Len(sections)
                       /\ ~QueryIssued
    /\ StoreReturned => segmented /\ Rank(pc) >= 5
    /\ QueryIssued => pc = "done" /\ StoreReturned
    /\ pc = "done" => \/ ~QueryIssued /\ messages \in FailureOutcomes
                      \/ QueryIssued /\ messages \in QueriedOutcomes
    /\ pc \in {"extract", "store_begin", "store", "query"} =>
          file_type \in {"PDF", "TXT"}
    /\ 0 <= idx /\ idx <= Len(sections)

\* within one run every step moves to a later stage, except the iterations
\* of the insertion loop, which move on in the list of sections
C13_Step ==
    IF runs' # runs
    THEN pc = "done" /\ pc' = "idle" /\ runs' = runs + 1
    ELSE \/ Rank(pc') > Rank(pc)
         \/ pc = "store" /\ pc' = "store" /\ idx' = idx + 1
                /\ idx' <= Len(sections)

\* C13: main() only moves forward through extraction, segmentation and
\* insertion, query: no stage is re-entered or retried, a stage starts only
\* after the one before it has completed, and a run ends in Queried or in a
\* terminal failure outcome.
C13_ForwardOnly == [](C13_StageOrder) /\ [][C13_Step]_vars

\* a second run went through every stage and ended in Queried with results
C13_Witness ==
    /\ runs = 2
    /\ pc = "done"
    /\ segmented
    /\ Len(addLog) > 0
    /\ queryStatus = "returned"
    /\ messages = <<"search_results", "session_completed">>

====
